---- MODULE Spec2Model ----
(***************************************************************************)
(* Chat transcript rendering and auto-scroll of the web client:            *)
(*   frontend/src/components/ChatMessageDisplay/ChatMessageDisplay.tsx     *)
(*   frontend/src/components/ChatWindow/ChatWindow.tsx                     *)
(*                                                                         *)
(* ChatMessageDisplay and the render output of ChatWindow are pure         *)
(* functions and are modelled as operators.  The life of one mounted       *)
(* ChatWindow is a state machine: the owner of the transcript changes the  *)
(* props, the framework runs a render pass, commits its output to the DOM  *)
(* and then runs the passive effect registered with deps [messages].       *)
(* Lengths are measured in rows: a bubble is as tall as its text needs.    *)
(***************************************************************************)
EXTENDS Integers, Sequences, FiniteSets, TLC

\* ------------------------------------------------------------------ bounds
MaxMessages == 2        \* longest transcript explored
ClientHeight == 2       \* rows of the viewport (style height: '75vh')

\* ------------------------------------------------------------ message model
Roles == {"user", "bot", "admin"}          \* "admin": not a recognized role
Types == {"normal", "error", "warning"}    \* "warning": not a recognized type
Texts == {"Hi", "Service unavailable, please try again later"}

ChatMessage == [role : Roles, type : Types, message : Texts]

\* rows a Card of width 55% needs for a text
TextHeight(t) == IF t = "Hi" THEN 1 ELSE 2

Min(a, b) == IF a < b THEN a ELSE b
Max(a, b) == IF a > b THEN a ELSE b

\* ------------------------------------------------------ ChatMessageDisplay
ChatMessageDisplay_noError(message) ==
  [kind    |-> "bubble",
   justify |-> IF message.role = "bot" THEN "flex-start" ELSE "flex-end",
   bg      |-> IF message.role = "bot" THEN "gray.2" ELSE "sccGreen.9",
   c       |-> IF message.role = "bot" THEN "black" ELSE "white",
   w       |-> "55%",
   text    |-> message.message]

ChatMessageDisplay_swapped(message) ==
  LET isError == message.type = "error" IN
  [kind    |-> "bubble",
   justify |-> IF message.role = "bot" THEN "flex-start" ELSE "flex-end",
   bg      |-> IF isError THEN "sccRed.9"
               ELSE IF message.role = "bot" THEN "sccGreen.9" ELSE "gray.2",
   c       |-> IF isError THEN "white"
               ELSE IF message.role = "bot" THEN "white" ELSE "black",
   w       |-> "55%",
   text    |-> message.message]

ChatMessageDisplay_errorRight(message) ==
  LET isError == message.type = "error" IN
  [kind    |-> "bubble",
   justify |-> IF message.role = "bot" /\ ~isError THEN "flex-start" ELSE "flex-end",
   bg      |-> IF isError THEN "sccRed.9"
               ELSE IF message.role = "bot" THEN "gray.2" ELSE "sccGreen.9",
   c       |-> IF isError THEN "white"
               ELSE IF message.role = "bot" THEN "black" ELSE "white",
   w       |-> "55%",
   text    |-> message.message]

ChatMessageDisplay_userOnly(message) ==
  LET isError == message.type = "error" IN
  [kind    |-> "bubble",
   justify |-> IF message.role = "user" THEN "flex-end" ELSE "flex-start",
   bg      |-> IF isError THEN "sccRed.9"
               ELSE IF message.role = "user" THEN "sccGreen.9" ELSE "gray.2",
   c       |-> IF isError THEN "white"
               ELSE IF message.role = "user" THEN "white" ELSE "black",
   w       |-> "55%",
   text    |-> message.message]

\* ChatMessageDisplay.tsx:8-26.  justify, bg and c are first chosen from the
\* role; type === 'error' then overwrites bg and c, never justify.
ChatMessageDisplay(message) ==
  LET justify == IF message.role = "bot" THEN "flex-start" ELSE "flex-end"
      bg0     == IF message.role = "bot" THEN "gray.2" ELSE "sccGreen.9"
      c0      == IF message.role = "bot" THEN "black" ELSE "white"
      isError == message.type = "error"
  IN [kind    |-> "bubble",
      justify |-> justify,
      bg      |-> IF isError THEN "sccRed.9" ELSE bg0,
      c       |-> IF isError THEN "white" ELSE c0,
      w       |-> "55%",
      text    |-> message.message]

\* <ChatMessageLoading />: a placeholder without role, type or text.
ChatMessageLoading ==
  [kind |-> "loading", justify |-> "flex-start", bg |-> "none", c |-> "none",
   w |-> "55%", text |-> ""]

\* -------------------------------------------------------------- ChatWindow
ChatWindowChildren_reversed(msgs, isLoading) ==
  [i \in 1..Len(msgs) |-> ChatMessageDisplay(msgs[Len(msgs) + 1 - i])]
    \o (IF isLoading THEN <<ChatMessageLoading>> ELSE <<>>)

ChatWindowChildren_loadingFirst(msgs, isLoading) ==
  (IF isLoading THEN <<ChatMessageLoading>> ELSE <<>>)
    \o [i \in 1..Len(msgs) |-> ChatMessageDisplay(msgs[i])]

\* ChatWindow.tsx:25-30.  The children of the Stack: messages.map(...) keyed
\* by index, then {loading && <ChatMessageLoading />}.
ChatWindowChildren(msgs, isLoading) ==
  [i \in 1..Len(msgs) |-> ChatMessageDisplay(msgs[i])]
    \o (IF isLoading THEN <<ChatMessageLoading>> ELSE <<>>)

EffectDeps_withLoading(msgs, isLoading) == <<msgs, isLoading>>

\* ChatWindow.tsx:21.  The dependency list of the effect.
EffectDeps(msgs, isLoading) == <<msgs>>

\* ChatWindow.tsx:12-33.  One call of the component function.
ChatWindow(msgs, isLoading) ==
  [messages |-> msgs,
   loading  |-> isLoading,
   children |-> ChatWindowChildren(msgs, isLoading),
   deps     |-> EffectDeps(msgs, isLoading)]

\* ------------------------------------------------------------------ layout
ElementHeight(e) == IF e.kind = "loading" THEN 1 ELSE TextHeight(e.text)

RECURSIVE ContentHeight(_)
ContentHeight(children) ==
  IF children = <<>> THEN 0
  ELSE ElementHeight(Head(children)) + ContentHeight(Tail(children))

\* viewport.scrollHeight: the content, never less than the viewport itself
ScrollHeight(children) == Max(ClientHeight, ContentHeight(children))

\* the largest offset the viewport can be scrolled to
MaxScrollTop(children) == ScrollHeight(children) - ClientHeight

\* what a write of v to viewport.scrollTop stores, and what a layout does to
\* an offset that the new content no longer reaches
ClampScrollTop(v, children) == Min(Max(v, 0), MaxScrollTop(children))

Bubbles(children) == SelectSeq(children, LAMBDA e : e.kind = "bubble")
Placeholders(children) == SelectSeq(children, LAMBDA e : e.kind = "loading")

\* --------------------------------------------------------- the scroll effect
Null == "null"
Div  == "div"

ScrollEffect_page(viewport, top, children) ==
  IF viewport # Null THEN ClampScrollTop(top + ClientHeight, children) ELSE top

ScrollEffect_clientHeight(viewport, top, children) ==
  IF viewport # Null THEN ClampScrollTop(ClientHeight, children) ELSE top

\* ChatWindow.tsx:17-20.  The body of the effect: the new scrollTop.
ScrollEffect(viewport, top, children) ==
  IF viewport # Null THEN ClampScrollTop(ScrollHeight(children), children) ELSE top

\* ------------------------------------------------------------------- state
VARIABLES
  messages,       \* the transcript held by the owner of ChatWindow
  loading,        \* the loading flag held by the owner
  phase,          \* "idle" or "render": a render pass waits for its commit
  wip,            \* result of the latest call of ChatWindow
  cur,            \* result of the call whose output is in the DOM
  viewportRef,    \* viewportRef.current
  dom,            \* the children of the Stack in the DOM
  scrollTop,      \* viewport.scrollTop
  effectPending,  \* the effect of the committed render has not run yet
  last,           \* the step that led here
  prevTop,        \* scrollTop before the run of the effect that led here
  readHeight      \* scrollHeight read by the run of the effect that led here

vars == <<messages, loading, phase, wip, cur, viewportRef, dom, scrollTop,
          effectPending, last, prevTop, readHeight>>

NoRender == [messages |-> <<>>, loading |-> FALSE, children |-> <<>>,
             deps |-> <<"none">>]

Mounted == cur # NoRender

Init ==
  /\ messages = <<>>
  /\ loading = FALSE
  /\ phase = "idle"
  /\ wip = NoRender
  /\ cur = NoRender
  /\ viewportRef = Null
  /\ dom = <<>>
  /\ scrollTop = 0
  /\ effectPending = FALSE
  /\ last = "init"
  /\ prevTop = 0
  /\ readHeight = 0

\* ---------------------------------------------------- the owner of the props
\* the owner appends one message: a new array, the old one is not mutated
AppendMessage ==
  /\ phase = "idle"
  /\ Len(messages) < MaxMessages
  /\ \E m \in ChatMessage : messages' = Append(messages, m)
  /\ last' = "append"
  /\ prevTop' = 0
  /\ readHeight' = 0
  /\ UNCHANGED <<loading, phase, wip, cur, viewportRef, dom, scrollTop,
                 effectPending>>

SetLoading ==
  /\ phase = "idle"
  /\ loading' = ~loading
  /\ last' = "loading"
  /\ prevTop' = 0
  /\ readHeight' = 0
  /\ UNCHANGED <<messages, phase, wip, cur, viewportRef, dom, scrollTop,
                 effectPending>>

\* the user drags the scrollbar of the ScrollArea
UserScroll ==
  /\ phase = "idle"
  /\ Mounted
  /\ \E y \in 0..MaxScrollTop(dom) : y # scrollTop /\ scrollTop' = y
  /\ last' = "scroll"
  /\ prevTop' = 0
  /\ readHeight' = 0
  /\ UNCHANGED <<messages, loading, phase, wip, cur, viewportRef, dom,
                 effectPending>>

\* ---------------------------------------------------------------- rendering
\* The framework calls ChatWindow with the current props.  Pending passive
\* effects are flushed before a component renders again.
Render ==
  /\ phase = "idle"
  /\ ~effectPending
  /\ (~Mounted \/ messages # cur.messages \/ loading # cur.loading)
  /\ wip' = ChatWindow(messages, loading)
  /\ phase' = "render"
  /\ last' = "render"
  /\ prevTop' = 0
  /\ readHeight' = 0
  /\ UNCHANGED <<messages, loading, cur, viewportRef, dom, scrollTop,
                 effectPending>>

\* The output of the render pass replaces the children in the DOM, the ref is
\* attached, the layout keeps scrollTop within the new range, and the effect
\* is scheduled on mount and whenever its deps differ from those of the
\* previous render.
Commit ==
  /\ phase = "render"
  /\ dom' = wip.children
  /\ viewportRef' = Div
  /\ scrollTop' = ClampScrollTop(scrollTop, wip.children)
  /\ effectPending' = (~Mounted \/ wip.deps # cur.deps)
  /\ cur' = wip
  /\ phase' = "idle"
  /\ last' = "commit"
  /\ prevTop' = 0
  /\ readHeight' = 0
  /\ UNCHANGED <<messages, loading, wip>>

EffectReady_inRender ==
  \/ phase = "idle" /\ effectPending
  \/ phase = "render" /\ last = "render" /\ Mounted /\ wip.deps # cur.deps

\* useEffect: the effect runs after the commit that scheduled it
EffectReady == phase = "idle" /\ effectPending

RunEffect ==
  /\ EffectReady
  /\ scrollTop' = ScrollEffect(viewportRef, scrollTop, dom)
  /\ prevTop' = scrollTop
  /\ readHeight' = IF viewportRef # Null THEN ScrollHeight(dom) ELSE 0
  /\ effectPending' = FALSE
  /\ last' = IF last = "again" THEN "rerun" ELSE "effect"
  /\ UNCHANGED <<messages, loading, phase, wip, cur, viewportRef, dom>>

Next ==
  \/ AppendMessage
  \/ SetLoading
  \/ UserScroll
  \/ Render
  \/ Commit
  \/ RunEffect

Spec == Init /\ [][Next]_vars

\* ------------------------------------------- the effect body on its own
\* Every transcript of at most n messages.
RECURSIVE Transcripts(_)
Transcripts(n) ==
  IF n = 0 THEN {<<>>}
  ELSE Transcripts(n - 1) \cup
       {Append(t, m) : t \in {u \in Transcripts(n - 1) : Len(u) = n - 1},
                       m \in ChatMessage}

\* A committed render of any transcript, the viewport handle attached or
\* not, the viewport scrolled anywhere, the effect about to run.
InitEffect ==
  /\ messages \in Transcripts(MaxMessages)
  /\ loading \in BOOLEAN
  /\ phase = "idle"
  /\ wip = ChatWindow(messages, loading)
  /\ cur = wip
  /\ viewportRef \in {Null, Div}
  /\ dom = wip.children
  /\ scrollTop \in 0..MaxScrollTop(dom)
  /\ effectPending = TRUE
  /\ last = "init"
  /\ prevTop = 0
  /\ readHeight = 0

\* the effect is scheduled once more while the DOM stays as it is
RunAgain ==
  /\ phase = "idle"
  /\ ~effectPending
  /\ last = "effect"
  /\ effectPending' = TRUE
  /\ last' = "again"
  /\ UNCHANGED <<messages, loading, phase, wip, cur, viewportRef, dom,
                 scrollTop, prevTop, readHeight>>

NextEffect ==
  \/ RunEffect
  \/ RunAgain

SpecEffect == InitEffect /\ [][NextEffect]_vars

\* ===================================================================
\* Properties
\* ===================================================================
Recognized(m) == m.role \in {"user", "bot"} /\ m.type \in {"normal", "error"}

\* the bubble in the DOM of the i-th message of the committed render
BubbleAt(i) == Bubbles(dom)[i]

\* the committed render changed nothing but the loading flag
LoadingOnlyCommit == Commit /\ Mounted /\ wip.messages = cur.messages

\* C1: every commit of a changed message sequence schedules the scroll
\* effect, and once the effect has run the scroll offset equals the maximum
\* scrollable offset, whatever the transcript and the offset before.
C1_PinnedToBottom ==
  /\ [](last = "effect" => scrollTop = MaxScrollTop(dom))
  /\ [][Commit /\ wip.messages # cur.messages => effectPending']_vars

C1_Witness ==
  /\ last = "effect"
  /\ Len(cur.messages) >= 2
  /\ scrollTop = MaxScrollTop(dom)
  /\ scrollTop >= 2
  /\ prevTop = 1

\* C2: a message of type error is shown with background sccRed.9 and
\* foreground white, whatever its role.
C2_ErrorPalette ==
  \A i \in 1..Len(cur.messages) :
    cur.messages[i].type = "error" =>
      BubbleAt(i).bg = "sccRed.9" /\ BubbleAt(i).c = "white"

C2_Witness ==
  \E i \in 1..Len(cur.messages), j \in 1..Len(cur.messages) :
    /\ cur.messages[i].type = "error" /\ cur.messages[i].role = "bot"
    /\ cur.messages[j].type = "error" /\ cur.messages[j].role = "user"
    /\ BubbleAt(i).bg = "sccRed.9" /\ BubbleAt(j).bg = "sccRed.9"

\* C3: a message of a type other than error is shown gray.2/black when its
\* role is bot and sccGreen.9/white when its role is not bot.
C3_RolePalette ==
  \A i \in 1..Len(cur.messages) :
    cur.messages[i].type # "error" =>
      IF cur.messages[i].role = "bot"
      THEN BubbleAt(i).bg = "gray.2" /\ BubbleAt(i).c = "black"
      ELSE BubbleAt(i).bg = "sccGreen.9" /\ BubbleAt(i).c = "white"

C3_Witness ==
  \E i \in 1..Len(cur.messages), j \in 1..Len(cur.messages) :
    /\ cur.messages[i].type = "normal" /\ cur.messages[i].role = "bot"
    /\ cur.messages[j].type = "normal" /\ cur.messages[j].role = "user"
    /\ BubbleAt(i).bg = "gray.2" /\ BubbleAt(j).bg = "sccGreen.9"

\* C4: the alignment of a bubble is flex-start when the role is bot and
\* flex-end otherwise; the type has no influence on it.
C4_AlignmentByRole ==
  \A i \in 1..Len(cur.messages) :
    BubbleAt(i).justify =
      (IF cur.messages[i].role = "bot" THEN "flex-start" ELSE "flex-end")

C4_Witness ==
  \E i \in 1..Len(cur.messages), j \in 1..Len(cur.messages) :
    /\ cur.messages[i].type = "error" /\ cur.messages[i].role = "bot"
    /\ cur.messages[j].type = "normal" /\ cur.messages[j].role = "bot"
    /\ BubbleAt(i).justify = "flex-start" /\ BubbleAt(j).justify = "flex-start"

\* C5: the DOM holds one bubble per message of the committed render, the
\* i-th bubble being that of the i-th message, and a commit that appends one
\* message to a transcript of N yields N+1 bubbles whose first N are the
\* bubbles there were.
C5_OneBubblePerMessage ==
  /\ [](/\ Len(Bubbles(dom)) = Len(cur.messages)
        /\ \A i \in 1..Len(cur.messages) :
             /\ BubbleAt(i).text = cur.messages[i].message
             /\ BubbleAt(i) = ChatMessageDisplay(cur.messages[i]))
  /\ [][(Commit /\ Mounted /\ \E m \in ChatMessage :
                                 wip.messages = Append(cur.messages, m))
         => /\ Len(Bubbles(dom')) = Len(Bubbles(dom)) + 1
            /\ SubSeq(Bubbles(dom'), 1, Len(Bubbles(dom))) = Bubbles(dom)]_vars

C5_Witness ==
  /\ last = "commit"
  /\ Len(cur.messages) = 2
  /\ cur.messages[1] # cur.messages[2]
  /\ Len(Bubbles(dom)) = 2
  /\ BubbleAt(1).justify = "flex-end"
  /\ BubbleAt(2).justify = "flex-start"

\* C6: the DOM holds one loading placeholder, after all bubbles, when the
\* committed loading flag is true and none when it is false, and a commit
\* that changes the loading flag alone leaves the bubbles as they were.
C6_LoadingPlaceholder ==
  /\ [](Mounted =>
          /\ Len(Placeholders(dom)) = (IF cur.loading THEN 1 ELSE 0)
          /\ cur.loading => dom[Len(dom)].kind = "loading"
          /\ \A i \in 1..Len(cur.messages) : dom[i].kind = "bubble")
  /\ [][LoadingOnlyCommit => Bubbles(dom') = Bubbles(dom)]_vars

C6_Witness ==
  /\ last = "commit"
  /\ ~effectPending
  /\ cur.loading
  /\ Len(cur.messages) >= 1
  /\ Len(dom) = Len(cur.messages) + 1
  /\ dom[Len(dom)] = ChatMessageLoading

\* C7: the effect runs only when the render pass that scheduled it has been
\* committed, and the scroll height it reads is that of the children
\* rendered from the messages of that pass.
C7_EffectAfterCommit ==
  /\ effectPending => phase = "idle" /\ cur = wip /\ dom = cur.children
  /\ last = "effect" =>
       /\ viewportRef # Null
       /\ readHeight = ScrollHeight(ChatWindowChildren(wip.messages, wip.loading))

C7_Witness ==
  /\ last = "effect"
  /\ Len(cur.messages) >= 2
  /\ readHeight > ScrollHeight(ChatWindowChildren(
                     SubSeq(cur.messages, 1, Len(cur.messages) - 1), cur.loading))

\* C8 as stated: every message is rendered, and a message whose role or
\* type is not recognized gets flex-end, sccGreen.9 and white.
C8_UnrecognizedIsNonBot ==
  \A i \in 1..Len(cur.messages) :
    /\ BubbleAt(i).kind = "bubble"
    /\ ~Recognized(cur.messages[i]) =>
         /\ BubbleAt(i).justify = "flex-end"
         /\ BubbleAt(i).bg = "sccGreen.9"
         /\ BubbleAt(i).c = "white"

\* C8 amended: every message is rendered; a role that is not recognized is
\* treated as any role other than bot (flex-end, and sccGreen.9/white unless
\* the type is error, which still gives sccRed.9/white); a type that is not
\* recognized is treated as a type other than error (the palette follows the
\* role: gray.2/black and flex-start for bot).
C8_UnrecognizedFallback ==
  \A i \in 1..Len(cur.messages) :
    LET m == cur.messages[i]
        b == BubbleAt(i)
    IN /\ b.kind = "bubble"
       /\ m.role \notin {"user", "bot"} =>
            /\ b.justify = "flex-end"
            /\ m.type # "error" => b.bg = "sccGreen.9" /\ b.c = "white"
            /\ m.type = "error" => b.bg = "sccRed.9" /\ b.c = "white"
       /\ m.type \notin {"normal", "error"} =>
            IF m.role = "bot"
            THEN b.justify = "flex-start" /\ b.bg = "gray.2" /\ b.c = "black"
            ELSE b.justify = "flex-end" /\ b.bg = "sccGreen.9" /\ b.c = "white"

C8_Witness ==
  \E i \in 1..Len(cur.messages), j \in 1..Len(cur.messages) :
    /\ cur.messages[i].role = "admin" /\ cur.messages[i].type = "error"
    /\ BubbleAt(i).bg = "sccRed.9"
    /\ cur.messages[j].role = "bot" /\ cur.messages[j].type = "warning"
    /\ BubbleAt(j).bg = "gray.2"

\* C9: a second run of the effect on an unchanged DOM leaves the scroll
\* offset where the first run put it, and a run of the effect while
\* viewportRef.current is null changes neither the offset nor the DOM.
C9_EffectIdempotent ==
  /\ [](last = "rerun" => scrollTop = prevTop)
  /\ [][RunEffect /\ viewportRef = Null
         => scrollTop' = scrollTop /\ dom' = dom /\ viewportRef' = Null]_vars

C9_Witness ==
  /\ last = "rerun"
  /\ viewportRef = Div
  /\ scrollTop = MaxScrollTop(dom)
  /\ scrollTop >= 2

\* C10 as stated: a commit that changes the loading flag alone does not
\* schedule the effect and leaves the scroll offset unchanged.
C10_LoadingKeepsOffset ==
  [][LoadingOnlyCommit => ~effectPending' /\ scrollTop' = scrollTop]_vars

\* C10 amended: a commit that changes the loading flag alone does not
\* schedule the effect; when the flag goes from false to true the scroll
\* offset is unchanged although the scroll height does not shrink and may
\* grow; when it goes from true to false the offset changes only as far as
\* the layout lowers it to the new maximum.
C10_LoadingDoesNotRunEffect ==
  [][LoadingOnlyCommit =>
       /\ ~effectPending'
       /\ (wip.loading /\ ~cur.loading) =>
            /\ scrollTop' = scrollTop
            /\ ScrollHeight(dom') >= ScrollHeight(dom)
       /\ (~wip.loading /\ cur.loading) =>
            scrollTop' = Min(scrollTop, MaxScrollTop(dom'))]_vars

C10_Witness ==
  /\ last = "commit"
  /\ ~effectPending
  /\ cur.loading
  /\ scrollTop >= 1
  /\ scrollTop = MaxScrollTop(dom) - 1

====
